---- MODULE Spec2Model ----
(***************************************************************************)
(* The timescale_to_s3_pipeline DAG                                        *)
(* (airflow-poc/dags/timescale_to_s3_pipeline.py): four PythonOperator     *)
(* tasks chained extract >> convert >> upload >> notify, run by a          *)
(* scheduler that applies default_args (retries, retry_delay,              *)
(* execution_timeout) to every task and max_active_runs to the DAG.        *)
(* Each python callable is modelled statement by statement, so that an     *)
(* exception or the execution timeout can strike between any two of its    *)
(* effects on the local disk, the object store and XCom.                   *)
(***************************************************************************)
EXTENDS Integers, Sequences, FiniteSets, TLC

\* ------------------------------------------------------------------ bounds
\* Number of DAG runs created in a behaviour.
NumRuns == 2

Runs == 1..NumRuns

\* the decimal digit characters
Digit(i) == <<"0", "1", "2", "3", "4", "5", "6", "7", "8", "9">>[i + 1]

\* n in decimal, zero-padded to w characters
Digits(n, w) == [i \in 1..w |-> Digit((n \div 10^(w - i)) % 10)]

\* logical_date.strftime('%Y-%m-%d'): the characters of context['ds']
Strftime(y, m, d) == Digits(y, 4) \o <<"-">> \o Digits(m, 2) \o <<"-">> \o Digits(d, 2)

\* The logical dates (context['ds'], "YYYY-MM-DD") a run may carry. Two runs
\* may carry the same date: a scheduled run and a manual trigger of that day.
Dates == <<Strftime(2025, 3, 7), Strftime(2025, 11, 18), Strftime(2025, 12, 31)>>

\* The dates run r may be created with: one an earlier run may carry, or the
\* next one (runs are numbered in creation order, dates in order of first use).
DatesFor(r) == {Dates[i] : i \in 1..(IF r < Len(Dates) THEN r ELSE Len(Dates))}

\* the dates some run may carry
RunDates == UNION {DatesFor(r) : r \in Runs}

\* ----------------------------------------------------- program constants
\* a retry too many
retries_OneMore == 2 + 1

\* default_args['retries']
retries == 2
\* default_args['retry_delay'], minutes
retry_delay == 5
\* DAG(max_active_runs=1)
max_active_runs == 1

\* task ids, in the order of "extract_task >> convert_task >> upload_task >> notify_task"
EXTRACT == "extract_timescale_data"
CONVERT == "convert_to_parquet"
UPLOAD  == "upload_to_s3"
NOTIFY  == "notify_completion"

TaskOrder == <<EXTRACT, CONVERT, UPLOAD, NOTIFY>>
TaskIds == {TaskOrder[i] : i \in 1..Len(TaskOrder)}

Index(t) == CHOOSE i \in 1..Len(TaskOrder) : TaskOrder[i] = t

\* the direct upstream tasks of t in the dependency chain
Upstream(t) == IF Index(t) = 1 THEN {} ELSE {TaskOrder[Index(t) - 1]}

\* The statements of each callable that act on the disk, the store or XCom,
\* in program order.
ExtractStatements == <<"read_sql", "to_csv", "to_csv_write", "return">>

\* the CSV never removed
ConvertStatements_NoRemove ==
    <<"xcom_pull", "read_csv", "write_table", "write_table_write", "return">>

\* the CSV removed before the parquet file is written
ConvertStatements_RemoveFirst ==
    <<"xcom_pull", "read_csv", "remove", "write_table", "write_table_write", "return">>


ConvertStatements ==
    <<"xcom_pull", "read_csv", "write_table", "write_table_write", "remove", "return">>

\* the parquet file removed before it is transferred
UploadStatements_RemoveFirst ==
    <<"xcom_pull", "getenv", "session", "remove", "upload_file", "getsize", "return">>

\* the size of the parquet file taken after the file is removed
UploadStatements_SizeAfterRemove ==
    <<"xcom_pull", "getenv", "session", "upload_file", "remove", "getsize", "return">>

\* the parquet file never removed
UploadStatements_NoRemove ==
    <<"xcom_pull", "getenv", "session", "upload_file", "getsize", "return">>


UploadStatements ==
    <<"xcom_pull", "getenv", "session", "upload_file", "getsize", "remove", "return">>

NotifyStatements == <<"log">>

Statements(t) ==
    CASE t = EXTRACT -> ExtractStatements
      [] t = CONVERT -> ConvertStatements
      [] t = UPLOAD  -> UploadStatements
      [] t = NOTIFY  -> NotifyStatements

\* the statement after p in the callable of task t
After(t, p) ==
    LET ss == Statements(t)
        i  == CHOOSE j \in 1..Len(ss) : ss[j] = p
    IN  ss[i + 1]

\* ------------------------------------------------------------------ values
None == [type |-> "None"]

\* f"/tmp/timescale_data_{context['ds']}.csv"
CsvPath(d) == [type |-> "path", ds |-> d, ext |-> "csv"]
\* csv_file.replace('.csv', '.parquet')
ReplaceExt(p) == [p EXCEPT !.ext = "parquet"]
\* os.path.basename(parquet_file)
Basename(p) == [ds |-> p.ds, ext |-> p.ext]

Paths == {CsvPath(d) : d \in RunDates} \cup {ReplaceExt(CsvPath(d)) : d \in RunDates}

\* a slice that starts one character late
Slice_OneLate(s, i, j) == SubSeq(s, i + 2, IF j + 1 < Len(s) THEN j + 1 ELSE Len(s))

\* python slice s[i:j], 0 <= i: the end is clamped to the length of s
Slice(s, i, j) == SubSeq(s, i + 1, IF j < Len(s) THEN j ELSE Len(s))

\* s3_key = f"timescale_data/year={ds[:4]}/month={ds[5:7]}/day={ds[8:10]}/{file_name}"
S3Key(d, file_name) ==
    [prefix |-> "timescale_data",
     year   |-> Slice(d, 0, 4),
     month  |-> Slice(d, 5, 7),
     day    |-> Slice(d, 8, 10),
     file_name |-> file_name]

\* A file on the local disk. st: absent, partial (opened for writing and not
\* completely written) or complete; by: the run that wrote it; data: the run
\* whose extraction the content comes from.
NoFile == [st |-> "absent"]
File(s, r, x) == [st |-> s, by |-> r, data |-> x]

\* os.path.exists
Exists(f) == f.st # "absent"

\* os.path.getsize: bytes of a file, a function of its content
FileSize(f) == IF f.st = "complete" THEN 100 + f.data ELSE 50

\* An object in the bucket: written by run `by`, holding a copy of file f.
NoObject == [st |-> "absent"]
Object(r, f) == [st |-> "present", by |-> r, data |-> f.data, size |-> FileSize(f)]

\* s_[k] with s_ := the object upload_file puts at key k: a new key is added,
\* an existing key is overwritten
PutObject(bucket, k, o) ==
    [j \in DOMAIN bucket \cup {k} |-> IF j = k THEN o ELSE bucket[j]]

\* os.getenv('AWS_S3_BUCKET')
BucketValues == {None, [type |-> "str", name |-> "lake"]}

\* a pandas DataFrame held in memory: the rows of run x's extraction
DataFrame(x) == [type |-> "DataFrame", data |-> x]

\* locals of a running python callable
NoLocals == [df |-> None, file_size |-> None]

\* upload_details
UploadDetails(b, k, n) == [type |-> "dict", bucket |-> b, key |-> k, file_size_bytes |-> n]

VARIABLES
    AWS_S3_BUCKET,  \* the environment variable, fixed for the deployment
    source,         \* the source store: "reachable" or "unreachable"
    dagrun,         \* dagrun[r]: [state, ds]
    ti,             \* ti[r][t]: the task instance [state, try_number, error, waited]
    pc,             \* pc[r][t]: the statement the task's callable is at
    locals,         \* locals[r][t]: the callable's local variables
    xcom,           \* xcom[r][t]: the task's pushed return value
    disk,           \* disk[p]: the file at path p under /tmp
    s3,             \* s3[k]: the object at key k of the bucket, for the keys written
    log             \* log[r]: the completion record notify_completion logged

vars == <<AWS_S3_BUCKET, source, dagrun, ti, pc, locals, xcom, disk, s3, log>>

NoTI == [state |-> "none", try_number |-> 0, error |-> "", waited |-> 0]

Init ==
    /\ AWS_S3_BUCKET \in BucketValues
    /\ source \in {"reachable", "unreachable"}
    /\ dagrun = [r \in Runs |-> [state |-> "none", ds |-> <<>>]]
    /\ ti = [r \in Runs |-> [t \in TaskIds |-> NoTI]]
    /\ pc = [r \in Runs |-> [t \in TaskIds |-> "idle"]]
    /\ locals = [r \in Runs |-> [t \in TaskIds |-> NoLocals]]
    /\ xcom = [r \in Runs |-> [t \in TaskIds |-> None]]
    /\ disk = [p \in Paths |-> NoFile]
    /\ s3 = <<>>
    /\ log = [r \in Runs |-> None]

\* --------------------------------------------------------------- scheduler
ActiveRuns == {r \in Runs : dagrun[r].state = "running"}

\* A run is created (by the schedule or by a trigger) in state queued.
CreateRun(r, d) ==
    /\ dagrun[r].state = "none"
    /\ \A q \in Runs : q < r => dagrun[q].state # "none"
    /\ dagrun' = [dagrun EXCEPT ![r] = [state |-> "queued", ds |-> d]]
    /\ UNCHANGED <<AWS_S3_BUCKET, source, ti, pc, locals, xcom, disk, s3, log>>

\* max_active_runs not enforced
MayStartRun_Unlimited(r) == TRUE

\* max_active_runs: a queued run starts only while fewer runs are running.
MayStartRun(r) == Cardinality(ActiveRuns) < max_active_runs

StartRun(r) ==
    /\ dagrun[r].state = "queued"
    /\ MayStartRun(r)
    /\ dagrun' = [dagrun EXCEPT ![r].state = "running"]
    /\ UNCHANGED <<AWS_S3_BUCKET, source, ti, pc, locals, xcom, disk, s3, log>>

\* a task scheduled whatever the state of its upstream task
DepsMet_Ignored(r, t) == TRUE

\* the upstream tasks merely started, not awaited
DepsMet_Started(r, t) == \A u \in Upstream(t) : ti[r][u].state \in {"running", "success"}

\* trigger rule all_success over "a >> b": every upstream task succeeded
DepsMet(r, t) == \A u \in Upstream(t) : ti[r][u].state = "success"

\* A task with no attempt yet is scheduled once its upstream succeeded.
ScheduleTask(r, t) ==
    /\ dagrun[r].state = "running"
    /\ ti[r][t].state = "none"
    /\ DepsMet(r, t)
    /\ ti' = [ti EXCEPT ![r][t].state = "scheduled"]
    /\ UNCHANGED <<AWS_S3_BUCKET, source, dagrun, pc, locals, xcom, disk, s3, log>>

\* retry_delay elapses for a task that is up for retry.
RetryDelay(r, t) ==
    /\ dagrun[r].state = "running"
    /\ ti[r][t].state = "up_for_retry"
    /\ ti' = [ti EXCEPT ![r][t].state = "scheduled", ![r][t].waited = retry_delay]
    /\ UNCHANGED <<AWS_S3_BUCKET, source, dagrun, pc, locals, xcom, disk, s3, log>>

\* an attempt start that clears the XCom of every task of the run
StartTask_ClearsRunXCom(r, t) ==
    /\ dagrun[r].state = "running"
    /\ ti[r][t].state = "scheduled"
    /\ ti' = [ti EXCEPT ![r][t].state = "running",
                        ![r][t].try_number = @ + 1,
                        ![r][t].error = "",
                        ![r][t].waited = 0]
    /\ pc' = [pc EXCEPT ![r][t] = Statements(t)[1]]
    /\ xcom' = [xcom EXCEPT ![r] = [u \in TaskIds |-> None]]
    /\ UNCHANGED <<AWS_S3_BUCKET, source, dagrun, locals, disk, s3, log>>

\* An attempt starts: try_number is incremented, the task's XCom is cleared.
StartTask(r, t) ==
    /\ dagrun[r].state = "running"
    /\ ti[r][t].state = "scheduled"
    /\ ti' = [ti EXCEPT ![r][t].state = "running",
                        ![r][t].try_number = @ + 1,
                        ![r][t].error = "",
                        ![r][t].waited = 0]
    /\ pc' = [pc EXCEPT ![r][t] = Statements(t)[1]]
    /\ xcom' = [xcom EXCEPT ![r][t] = None]
    /\ UNCHANGED <<AWS_S3_BUCKET, source, dagrun, locals, disk, s3, log>>

\* A task none of whose attempts will run because an upstream task failed.
UpstreamFailed(r, t) ==
    /\ dagrun[r].state = "running"
    /\ ti[r][t].state = "none"
    /\ \E u \in Upstream(t) : ti[r][u].state \in {"failed", "upstream_failed"}
    /\ ti' = [ti EXCEPT ![r][t].state = "upstream_failed"]
    /\ UNCHANGED <<AWS_S3_BUCKET, source, dagrun, pc, locals, xcom, disk, s3, log>>

\* a run closed only when its leaf task succeeded
FinishRun_OnlySuccess(r) ==
    /\ dagrun[r].state = "running"
    /\ ti[r][NOTIFY].state = "success"
    /\ dagrun' = [dagrun EXCEPT ![r].state = "success"]
    /\ UNCHANGED <<AWS_S3_BUCKET, source, ti, pc, locals, xcom, disk, s3, log>>

\* The run's state follows its leaf task.
FinishRun(r) ==
    /\ dagrun[r].state = "running"
    /\ ti[r][NOTIFY].state \in {"success", "failed", "upstream_failed"}
    /\ dagrun' = [dagrun EXCEPT ![r].state =
                    IF ti[r][NOTIFY].state = "success" THEN "success" ELSE "failed"]
    /\ UNCHANGED <<AWS_S3_BUCKET, source, ti, pc, locals, xcom, disk, s3, log>>

\* ------------------------------------------------- the end of an attempt
Executing(r, t, p) == ti[r][t].state = "running" /\ pc[r][t] = p

\* one retry fewer
StateAfterFailure_OffByOne(n) == IF n < retries THEN "up_for_retry" ELSE "failed"

\* The state of a task whose attempt number n raised: retried while n <= retries.
StateAfterFailure(n) == IF n <= retries THEN "up_for_retry" ELSE "failed"

\* The callable raised e.
Raise(r, t, e) ==
    /\ ti' = [ti EXCEPT ![r][t].state = StateAfterFailure(ti[r][t].try_number),
                        ![r][t].error = e,
                        ![r][t].waited = 0]
    /\ pc' = [pc EXCEPT ![r][t] = "idle"]
    /\ locals' = [locals EXCEPT ![r][t] = NoLocals]

\* The callable returned v: the value is pushed to XCom.
Return(r, t, v) ==
    /\ ti' = [ti EXCEPT ![r][t].state = "success"]
    /\ pc' = [pc EXCEPT ![r][t] = "idle"]
    /\ locals' = [locals EXCEPT ![r][t] = NoLocals]
    /\ xcom' = [xcom EXCEPT ![r][t] = v]

\* The callable goes on to its next statement.
Step(r, t) == pc' = [pc EXCEPT ![r][t] = After(t, pc[r][t])]

\* execution_timeout fires in a running attempt, wherever it is.
Timeout(r, t) ==
    /\ ti[r][t].state = "running"
    /\ Raise(r, t, "AirflowTaskTimeout")
    /\ UNCHANGED <<AWS_S3_BUCKET, source, dagrun, xcom, disk, s3, log>>

\* ------------------------------------------------- extract_timescale_data
\* df = pd.read_sql(query, conn_string)
ExtractReadSql(r) ==
    /\ Executing(r, EXTRACT, "read_sql")
    /\ \/ /\ source = "reachable"
          /\ locals' = [locals EXCEPT ![r][EXTRACT].df = DataFrame(r)]
          /\ Step(r, EXTRACT)
          /\ UNCHANGED <<ti, xcom>>
       \/ /\ Raise(r, EXTRACT, "OperationalError")
          /\ UNCHANGED xcom
    /\ UNCHANGED <<AWS_S3_BUCKET, source, dagrun, disk, s3, log>>

\* df.to_csv(csv_file, index=False): the file is opened for writing (truncated)
ExtractToCsvOpen(r) ==
    /\ Executing(r, EXTRACT, "to_csv")
    /\ \/ /\ disk' = [disk EXCEPT ![CsvPath(dagrun[r].ds)] =
                        File("partial", r, locals[r][EXTRACT].df.data)]
          /\ Step(r, EXTRACT)
          /\ UNCHANGED <<ti, locals, xcom>>
       \/ /\ Raise(r, EXTRACT, "OSError")
          /\ UNCHANGED <<disk, xcom>>
    /\ UNCHANGED <<AWS_S3_BUCKET, source, dagrun, s3, log>>

\* df.to_csv: the rows are written and the file closed
ExtractToCsvWrite(r) ==
    /\ Executing(r, EXTRACT, "to_csv_write")
    /\ \/ /\ disk' = [disk EXCEPT ![CsvPath(dagrun[r].ds)] =
                        File("complete", r, locals[r][EXTRACT].df.data)]
          /\ Step(r, EXTRACT)
          /\ UNCHANGED <<ti, locals, xcom>>
       \/ /\ Raise(r, EXTRACT, "OSError")
          /\ UNCHANGED <<disk, xcom>>
    /\ UNCHANGED <<AWS_S3_BUCKET, source, dagrun, s3, log>>

\* return csv_file
ExtractReturn(r) ==
    /\ Executing(r, EXTRACT, "return")
    /\ Return(r, EXTRACT, CsvPath(dagrun[r].ds))
    /\ UNCHANGED <<AWS_S3_BUCKET, source, dagrun, disk, s3, log>>

\* ------------------------------------------------- convert_csv_to_parquet
\* csv_file = xcom_pull(task_ids='extract_timescale_data')
\* if not csv_file or not os.path.exists(csv_file): raise FileNotFoundError
ConvertCheckInput(r) ==
    /\ Executing(r, CONVERT, "xcom_pull")
    /\ LET csv_file == xcom[r][EXTRACT] IN
       IF csv_file = None \/ ~Exists(disk[csv_file])
       THEN /\ Raise(r, CONVERT, "FileNotFoundError")
            /\ UNCHANGED xcom
       ELSE /\ Step(r, CONVERT)
            /\ UNCHANGED <<ti, locals, xcom>>
    /\ UNCHANGED <<AWS_S3_BUCKET, source, dagrun, disk, s3, log>>

\* df = pd.read_csv(csv_file); table = pa.Table.from_pandas(df)
ConvertReadCsv(r) ==
    /\ Executing(r, CONVERT, "read_csv")
    /\ LET csv_file == xcom[r][EXTRACT] IN
       \/ /\ Exists(disk[csv_file])
          /\ locals' = [locals EXCEPT ![r][CONVERT].df = DataFrame(disk[csv_file].data)]
          /\ Step(r, CONVERT)
          /\ UNCHANGED <<ti, xcom>>
       \/ /\ Raise(r, CONVERT, "ParserError")
          /\ UNCHANGED xcom
    /\ UNCHANGED <<AWS_S3_BUCKET, source, dagrun, disk, s3, log>>

\* pq.write_table(table, parquet_file, ...): the file is opened for writing
ConvertWriteTableOpen(r) ==
    /\ Executing(r, CONVERT, "write_table")
    /\ LET parquet_file == ReplaceExt(xcom[r][EXTRACT]) IN
       \/ /\ locals[r][CONVERT].df # None
          /\ disk' = [disk EXCEPT ![parquet_file] =
                        File("partial", r, locals[r][CONVERT].df.data)]
          /\ Step(r, CONVERT)
          /\ UNCHANGED <<ti, locals, xcom>>
       \/ /\ Raise(r, CONVERT, "OSError")
          /\ UNCHANGED <<disk, xcom>>
    /\ UNCHANGED <<AWS_S3_BUCKET, source, dagrun, s3, log>>

\* pq.write_table: the row groups and the footer are written, the file closed
ConvertWriteTableWrite(r) ==
    /\ Executing(r, CONVERT, "write_table_write")
    /\ LET parquet_file == ReplaceExt(xcom[r][EXTRACT]) IN
       \/ /\ disk' = [disk EXCEPT ![parquet_file] =
                        File("complete", r, locals[r][CONVERT].df.data)]
          /\ Step(r, CONVERT)
          /\ UNCHANGED <<ti, locals, xcom>>
       \/ /\ Raise(r, CONVERT, "OSError")
          /\ UNCHANGED <<disk, xcom>>
    /\ UNCHANGED <<AWS_S3_BUCKET, source, dagrun, s3, log>>

\* os.remove(csv_file)
ConvertRemoveCsv(r) ==
    /\ Executing(r, CONVERT, "remove")
    /\ LET csv_file == xcom[r][EXTRACT] IN
       \/ /\ Exists(disk[csv_file])
          /\ disk' = [disk EXCEPT ![csv_file] = NoFile]
          /\ Step(r, CONVERT)
          /\ UNCHANGED <<ti, locals, xcom>>
       \/ /\ Raise(r, CONVERT, "OSError")
          /\ UNCHANGED <<disk, xcom>>
    /\ UNCHANGED <<AWS_S3_BUCKET, source, dagrun, s3, log>>

\* return parquet_file
ConvertReturn(r) ==
    /\ Executing(r, CONVERT, "return")
    /\ Return(r, CONVERT, ReplaceExt(xcom[r][EXTRACT]))
    /\ UNCHANGED <<AWS_S3_BUCKET, source, dagrun, disk, s3, log>>

\* ----------------------------------------------------------- upload_to_s3
\* parquet_file = xcom_pull(task_ids='convert_to_parquet')
\* if not parquet_file or not os.path.exists(parquet_file): raise FileNotFoundError
UploadCheckInput(r) ==
    /\ Executing(r, UPLOAD, "xcom_pull")
    /\ LET parquet_file == xcom[r][CONVERT] IN
       IF parquet_file = None \/ ~Exists(disk[parquet_file])
       THEN /\ Raise(r, UPLOAD, "FileNotFoundError")
            /\ UNCHANGED xcom
       ELSE /\ Step(r, UPLOAD)
            /\ UNCHANGED <<ti, locals, xcom>>
    /\ UNCHANGED <<AWS_S3_BUCKET, source, dagrun, disk, s3, log>>

\* bucket_name = os.getenv('AWS_S3_BUCKET'); if not bucket_name: raise ValueError
UploadCheckBucket(r) ==
    /\ Executing(r, UPLOAD, "getenv")
    /\ IF AWS_S3_BUCKET = None
       THEN /\ Raise(r, UPLOAD, "ValueError")
            /\ UNCHANGED xcom
       ELSE /\ Step(r, UPLOAD)
            /\ UNCHANGED <<ti, locals, xcom>>
    /\ UNCHANGED <<AWS_S3_BUCKET, source, dagrun, disk, s3, log>>

\* session = boto3.Session(profile_name=aws_profile); s3_client = session.client('s3')
UploadSession(r) ==
    /\ Executing(r, UPLOAD, "session")
    /\ \/ /\ Step(r, UPLOAD)
          /\ UNCHANGED <<ti, locals, xcom>>
       \/ /\ Raise(r, UPLOAD, "ProfileNotFound")
          /\ UNCHANGED xcom
    /\ UNCHANGED <<AWS_S3_BUCKET, source, dagrun, disk, s3, log>>

\* the transfer under a key that carries the attempt number in the file name
UploadFile_KeyPerAttempt(r) ==
    /\ Executing(r, UPLOAD, "upload_file")
    /\ LET parquet_file == xcom[r][CONVERT]
           file_name == [Basename(parquet_file) EXCEPT
                            !.ds = @ \o <<"_", Digit(ti[r][UPLOAD].try_number)>>]
           s3_key == S3Key(dagrun[r].ds, file_name)
       IN
       \/ /\ Exists(disk[parquet_file])
          /\ s3' = PutObject(s3, s3_key, Object(r, disk[parquet_file]))
          /\ Step(r, UPLOAD)
          /\ UNCHANGED <<ti, locals, xcom>>
       \/ /\ Raise(r, UPLOAD, "S3UploadFailedError")
          /\ UNCHANGED <<s3, xcom>>
    /\ UNCHANGED <<AWS_S3_BUCKET, source, dagrun, disk, log>>

\* s3_client.upload_file(parquet_file, bucket_name, s3_key)
UploadFile(r) ==
    /\ Executing(r, UPLOAD, "upload_file")
    /\ LET parquet_file == xcom[r][CONVERT]
           s3_key == S3Key(dagrun[r].ds, Basename(parquet_file))
       IN
       \/ /\ Exists(disk[parquet_file])
          /\ s3' = PutObject(s3, s3_key, Object(r, disk[parquet_file]))
          /\ Step(r, UPLOAD)
          /\ UNCHANGED <<ti, locals, xcom>>
       \/ /\ Raise(r, UPLOAD, "S3UploadFailedError")
          /\ UNCHANGED <<s3, xcom>>
    /\ UNCHANGED <<AWS_S3_BUCKET, source, dagrun, disk, log>>

\* file_size = os.path.getsize(parquet_file)
UploadGetSize(r) ==
    /\ Executing(r, UPLOAD, "getsize")
    /\ LET parquet_file == xcom[r][CONVERT] IN
       \/ /\ Exists(disk[parquet_file])
          /\ locals' = [locals EXCEPT ![r][UPLOAD].file_size =
                          [type |-> "int", n |-> FileSize(disk[parquet_file])]]
          /\ Step(r, UPLOAD)
          /\ UNCHANGED <<ti, xcom>>
       \/ /\ Raise(r, UPLOAD, "OSError")
          /\ UNCHANGED xcom
    /\ UNCHANGED <<AWS_S3_BUCKET, source, dagrun, disk, s3, log>>

\* os.remove(parquet_file)
UploadRemoveParquet(r) ==
    /\ Executing(r, UPLOAD, "remove")
    /\ LET parquet_file == xcom[r][CONVERT] IN
       \/ /\ Exists(disk[parquet_file])
          /\ disk' = [disk EXCEPT ![parquet_file] = NoFile]
          /\ Step(r, UPLOAD)
          /\ UNCHANGED <<ti, locals, xcom>>
       \/ /\ Raise(r, UPLOAD, "OSError")
          /\ UNCHANGED <<disk, xcom>>
    /\ UNCHANGED <<AWS_S3_BUCKET, source, dagrun, s3, log>>

\* return upload_details
UploadReturn(r) ==
    /\ Executing(r, UPLOAD, "return")
    /\ Return(r, UPLOAD,
              UploadDetails(AWS_S3_BUCKET,
                            S3Key(dagrun[r].ds, Basename(xcom[r][CONVERT])),
                            locals[r][UPLOAD].file_size))
    /\ UNCHANGED <<AWS_S3_BUCKET, source, dagrun, disk, s3, log>>

\* ------------------------------------------------------ notify_completion
\* upload_details = xcom_pull(task_ids='upload_to_s3')
\* logger.info(...upload_details['bucket']...): subscripting None raises TypeError
NotifyLog(r) ==
    /\ Executing(r, NOTIFY, "log")
    /\ LET upload_details == xcom[r][UPLOAD] IN
       IF upload_details = None
       THEN /\ Raise(r, NOTIFY, "TypeError")
            /\ UNCHANGED <<xcom, log>>
       ELSE /\ log' = [log EXCEPT ![r] = [type |-> "record",
                                          ds |-> dagrun[r].ds,
                                          bucket |-> upload_details.bucket,
                                          key |-> upload_details.key,
                                          file_size_bytes |-> upload_details.file_size_bytes]]
            /\ Return(r, NOTIFY, None)
    /\ UNCHANGED <<AWS_S3_BUCKET, source, dagrun, disk, s3>>

Next ==
    \/ \E r \in Runs : \E d \in DatesFor(r) : CreateRun(r, d)
    \/ \E r \in Runs : StartRun(r)
    \/ \E r \in Runs, t \in TaskIds : ScheduleTask(r, t)
    \/ \E r \in Runs, t \in TaskIds : RetryDelay(r, t)
    \/ \E r \in Runs, t \in TaskIds : StartTask(r, t)
    \/ \E r \in Runs, t \in TaskIds : UpstreamFailed(r, t)
    \/ \E r \in Runs : FinishRun(r)
    \/ \E r \in Runs : ExtractReadSql(r)
    \/ \E r \in Runs : ExtractToCsvOpen(r)
    \/ \E r \in Runs : ExtractToCsvWrite(r)
    \/ \E r \in Runs : ExtractReturn(r)
    \/ \E r \in Runs : ConvertCheckInput(r)
    \/ \E r \in Runs : ConvertReadCsv(r)
    \/ \E r \in Runs : ConvertWriteTableOpen(r)
    \/ \E r \in Runs : ConvertWriteTableWrite(r)
    \/ \E r \in Runs : ConvertRemoveCsv(r)
    \/ \E r \in Runs : ConvertReturn(r)
    \/ \E r \in Runs : UploadCheckInput(r)
    \/ \E r \in Runs : UploadCheckBucket(r)
    \/ \E r \in Runs : UploadSession(r)
    \/ \E r \in Runs : UploadFile(r)
    \/ \E r \in Runs : UploadGetSize(r)
    \/ \E r \in Runs : UploadRemoveParquet(r)
    \/ \E r \in Runs : UploadReturn(r)
    \/ \E r \in Runs : NotifyLog(r)
    \/ \E r \in Runs, t \in TaskIds : Timeout(r, t)

Spec == Init /\ [][Next]_vars

\* ---------------------------------------------------- the run state machine
\* The state of run r in the terms of the run-level state machine: Pending
\* until the run is started, then the stage of the first task that has not
\* succeeded yet, Completed and Failed once the scheduler has closed the run.
RunPhase(r) ==
    CASE dagrun[r].state \in {"none", "queued"} -> "Pending"
      [] dagrun[r].state = "success" -> "Completed"
      [] dagrun[r].state = "failed" -> "Failed"
      [] OTHER ->
           IF ti[r][EXTRACT].state # "success" THEN "Extracting"
           ELSE IF ti[r][CONVERT].state # "success" THEN "Converting"
           ELSE IF ti[r][UPLOAD].state # "success" THEN "Uploading"
           ELSE "Notifying"

PhaseRank(ph) ==
    CASE ph = "Pending" -> 0
      [] ph = "Extracting" -> 1
      [] ph = "Converting" -> 2
      [] ph = "Uploading" -> 3
      [] ph = "Notifying" -> 4
      [] ph = "Completed" -> 5
      [] ph = "Failed" -> 6

\* the staging paths and the partition key of run r
CsvOf(r) == CsvPath(dagrun[r].ds)
ParquetOf(r) == ReplaceExt(CsvPath(dagrun[r].ds))
KeyOf(r) == S3Key(dagrun[r].ds, Basename(ParquetOf(r)))

\* the object at key k of the bucket
Stored(k) == IF k \in DOMAIN s3 THEN s3[k] ELSE NoObject

Created(r) == dagrun[r].state # "none"

\* an attempt of task t of run r ends in failure in this step
AttemptFails(r, t) ==
    /\ ti[r][t].state = "running"
    /\ ti'[r][t].state \in {"up_for_retry", "failed"}

\* an attempt of task t of run r starts in this step
AttemptStarts(r, t) ==
    /\ ti[r][t].state # "running"
    /\ ti'[r][t].state = "running"

\* ------------------------------------------------------------------ claims

\* C1 (as stated): in a run that ended Failed, no object was written under the
\* run's partition key unless an attempt of upload_to_s3 returned successfully.
C1_FailedRunWroteNoObject ==
    \A r \in Runs :
        (dagrun[r].state = "failed" /\ Stored(KeyOf(r)).st = "present" /\ Stored(KeyOf(r)).by = r)
            => ti[r][UPLOAD].state = "success"

\* C2 (as stated): a retried convert_csv_to_parquet or upload_to_s3 finds its
\* input file (the earlier stages having been re-run if it was deleted), it
\* does not fail on a missing input file.
C2_RetryFindsInput ==
    \A r \in Runs : \A t \in {CONVERT, UPLOAD} :
        ti[r][t].try_number > 1 => ti[r][t].error # "FileNotFoundError"

\* C3 (as stated): whenever an attempt of convert_csv_to_parquet fails, the CSV
\* written by the run's extractor still exists, complete and unchanged, after
\* the attempt.
C3_FailedConvertKeepsCsv ==
    [][\A r \in Runs :
          AttemptFails(r, CONVERT) => disk'[CsvOf(r)] = File("complete", r, r)]_vars

\* C4: in no state of a conversion attempt is the CSV of the run absent while
\* the parquet file of the run is absent or partially written: once the CSV is
\* gone, the parquet file is complete, written by this run from that CSV's rows.
C4_CsvRemovedAfterParquetWritten ==
    \A r \in Runs :
        (ti[r][CONVERT].state = "running" /\ ~Exists(disk[CsvOf(r)]))
            => disk[ParquetOf(r)] = File("complete", r, r)

\* C4 witness: a conversion has removed the CSV and holds the complete parquet file.
C4_Witness ==
    \E r \in Runs :
        /\ Executing(r, CONVERT, "return")
        /\ ~Exists(disk[CsvOf(r)])
        /\ disk[ParquetOf(r)] = File("complete", r, r)

\* C5: in no state of an upload attempt is the local parquet file absent unless
\* the transfer has put its object under the run's key; and after an attempt
\* that failed on a missing input, an unset bucket or a transfer error, no
\* upload result is recorded and the parquet file that passed the input check
\* is still on disk, complete.
C5_ParquetKeptUntilTransferred ==
    \A r \in Runs :
        /\ (ti[r][UPLOAD].state = "running" /\ ~Exists(disk[ParquetOf(r)]))
              => Stored(KeyOf(r)) = Object(r, File("complete", r, r))
        /\ (dagrun[r].state = "running"
              /\ ti[r][UPLOAD].state \in {"up_for_retry", "scheduled", "failed"}
              /\ ti[r][UPLOAD].error \in {"FileNotFoundError", "ValueError", "S3UploadFailedError"})
              => /\ xcom[r][UPLOAD] = None
                 /\ ti[r][UPLOAD].error # "FileNotFoundError"
                       => disk[ParquetOf(r)] = File("complete", r, r)

\* C5 witness: the transfer raised on the last attempt and the parquet file is still there.
C5_Witness ==
    \E r \in Runs :
        /\ ti[r][UPLOAD].state = "failed"
        /\ ti[r][UPLOAD].error = "S3UploadFailedError"
        /\ xcom[r][UPLOAD] = None
        /\ disk[ParquetOf(r)] = File("complete", r, r)

\* C6: when a run is closed as Completed, neither the CSV nor the parquet file
\* of its run date exists on disk.
C6_CompletedLeavesNoStagingFile ==
    [][\A r \in Runs :
          (dagrun[r].state # "success" /\ dagrun'[r].state = "success")
              => /\ ~Exists(disk'[CsvOf(r)])
                 /\ ~Exists(disk'[ParquetOf(r)])]_vars

\* C6 witness: a Completed run that needed retries in convert and upload.
C6_Witness ==
    \E r \in Runs :
        /\ dagrun[r].state = "success"
        /\ ti[r][CONVERT].try_number > 1
        /\ ti[r][UPLOAD].try_number > 1
        /\ ~Exists(disk[CsvOf(r)])
        /\ ~Exists(disk[ParquetOf(r)])

\* C7: no task is attempted more than 3 times in a run, an attempt after the
\* first is scheduled only once the 5-minute retry delay has elapsed since the
\* failure, and a run closed as Failed has a task that failed on its third attempt.
C7_ThreeAttemptsThenFailed ==
    \A r \in Runs :
        /\ \A t \in TaskIds :
              /\ ti[r][t].try_number <= 3
              /\ ti[r][t].state = "up_for_retry" => ti[r][t].waited = 0
              /\ (ti[r][t].state = "scheduled" /\ ti[r][t].try_number >= 1)
                    => ti[r][t].waited = 5 /\ ti[r][t].error # ""
              /\ ti[r][t].state = "failed" => ti[r][t].try_number = 3
        /\ dagrun[r].state = "failed"
              => \E t \in TaskIds : ti[r][t].state = "failed" /\ ti[r][t].try_number = 3

\* C7 witness: a run closed as Failed on the third attempt of its converter.
C7_Witness ==
    \E r \in Runs :
        /\ dagrun[r].state = "failed"
        /\ ti[r][CONVERT].state = "failed"
        /\ ti[r][CONVERT].try_number = 3

\* C8: with the source store unreachable, a closed run is Failed, its extractor
\* was attempted exactly 3 times, and at no time does any later task start,
\* any staging file exist or any object exist at the destination.
C8_SourceUnreachable ==
    source = "unreachable" =>
        /\ \A r \in Runs :
              /\ dagrun[r].state # "success"
              /\ dagrun[r].state = "failed"
                    => /\ ti[r][EXTRACT].state = "failed"
                       /\ ti[r][EXTRACT].try_number = 3
                       /\ ti[r][EXTRACT].error \in {"OperationalError", "AirflowTaskTimeout"}
              /\ \A t \in TaskIds \ {EXTRACT} :
                    /\ ti[r][t].try_number = 0
                    /\ ti[r][t].state \in {"none", "upstream_failed"}
              /\ xcom[r][EXTRACT] = None
        /\ \A p \in Paths : ~Exists(disk[p])
        /\ DOMAIN s3 = {}

\* C8 witness: the source is unreachable and a run has been closed as Failed.
C8_Witness ==
    /\ source = "unreachable"
    /\ \E r \in Runs : /\ dagrun[r].state = "failed"
                       /\ ti[r][EXTRACT].try_number = 3
                       /\ ti[r][EXTRACT].error = "OperationalError"

\* C9: the phase of a run only moves forward (Completed and Failed are final);
\* an attempt of a task starts only when its upstream task has succeeded and
\* pushed its artifact reference, and never after a later task has started.
C9_StrictlyForward ==
    [][\A r \in Runs :
          /\ PhaseRank(RunPhase(r)') >= PhaseRank(RunPhase(r))
          /\ RunPhase(r) \in {"Completed", "Failed"} => RunPhase(r)' = RunPhase(r)
          /\ \A t \in TaskIds :
                AttemptStarts(r, t) =>
                    /\ \A u \in Upstream(t) : /\ ti[r][u].state = "success"
                                              /\ xcom[r][u] # None
                    /\ \A v \in TaskIds : Index(v) > Index(t) => ti[r][v].try_number = 0]_vars

\* C9 witness: the notifier is running after a retried upload.
C9_Witness ==
    \E r \in Runs :
        /\ ti[r][NOTIFY].state = "running"
        /\ ti[r][UPLOAD].try_number = 2
        /\ xcom[r][UPLOAD] # None
        /\ RunPhase(r) = "Notifying"

\* C10: at most one run is running at any time, and no task of a run that is
\* still queued has been scheduled or attempted.
C10_SingleActiveRun ==
    /\ Cardinality(ActiveRuns) <= 1
    /\ \A r \in Runs :
          dagrun[r].state \in {"none", "queued"} =>
              \A t \in TaskIds : ti[r][t] = NoTI /\ pc[r][t] = "idle"
    /\ \A r, q \in Runs :
          (r # q /\ \E t \in TaskIds : ti[r][t].state = "running")
              => \A t \in TaskIds : ti[q][t].state \notin {"scheduled", "running", "up_for_retry"}

\* C10 witness: a second run waits in the queue while a task of the first is running.
C10_Witness ==
    \E r, q \in Runs :
        /\ dagrun[r].state = "running"
        /\ \E t \in TaskIds : ti[r][t].state = "running"
        /\ dagrun[q].state = "queued"

\* C11 (as stated): the staging path an attempt writes to is exclusive to it:
\* when an attempt opens its CSV or parquet path for writing, no file written
\* or partially written by an earlier attempt or by another run of the same
\* date is there to be overwritten.
C11_StagingPathExclusive ==
    [][\A r \in Runs :
          /\ (Executing(r, EXTRACT, "to_csv") /\ pc'[r][EXTRACT] = "to_csv_write")
                => ~Exists(disk[CsvOf(r)])
          /\ (Executing(r, CONVERT, "write_table") /\ pc'[r][CONVERT] = "write_table_write")
                => ~Exists(disk[ParquetOf(r)])]_vars

\* the run date whose partition key k lies under
KeyDate(k) == k.year \o <<"-">> \o k.month \o <<"-">> \o k.day

\* the keys of the bucket under the partition of date d
KeysOfDate(d) == {k \in DOMAIN s3 : KeyDate(k) = d}

\* C12: the bucket never holds more than one object under the partition of a
\* run date, whatever the number of runs and attempts that transferred for it;
\* the upload results of two runs of the same date name the same key, and once
\* an upload of a run has returned, that key is the only key of its date.
C12_OneObjectPerRunDate ==
    /\ \A d \in RunDates : Cardinality(KeysOfDate(d)) <= 1
    /\ \A k \in DOMAIN s3 : KeyDate(k) \in RunDates
    /\ \A r \in Runs :
          xcom[r][UPLOAD] # None =>
              /\ KeysOfDate(dagrun[r].ds) = {xcom[r][UPLOAD].key}
              /\ \A q \in Runs :
                    (xcom[q][UPLOAD] # None /\ dagrun[q].ds = dagrun[r].ds)
                        => xcom[q][UPLOAD].key = xcom[r][UPLOAD].key

\* C12 witness: two runs of the same date have both uploaded, the second on a
\* retry after a transfer that already went through, and the bucket holds one object.
C12_Witness ==
    \E r, q \in Runs :
        /\ r < q
        /\ dagrun[q].ds = dagrun[r].ds
        /\ ti[r][UPLOAD].state = "success"
        /\ ti[q][UPLOAD].state = "success"
        /\ ti[q][UPLOAD].try_number = 2
        /\ Cardinality(DOMAIN s3) = 1
        /\ Stored(KeyOf(q)).by = q

\* ------------------------------------------- the partition key of any date
\* Number of calendar years, from 2025 on, whose days are run dates below.
NumYears == 1

Years == {2025 + i : i \in 0..(NumYears - 1)}
Months == 1..12
DaysIn(m) == IF m = 2 THEN 28 ELSE IF m \in {4, 6, 9, 11} THEN 30 ELSE 31

\* A task instance that succeeded on its first try.
SucceededTI == [state |-> "success", try_number |-> 1, error |-> "", waited |-> 0]

\* upload_to_s3 of a run of any calendar date has just been started: the
\* upstream tasks have succeeded, the parquet file of the date is on disk.
InitKey ==
    \E y \in Years : \E m \in Months : \E d \in 1..DaysIn(m) :
        LET ds == Strftime(y, m, d)
            first == CHOOSE r \in Runs : \A q \in Runs : r <= q
        IN
        /\ AWS_S3_BUCKET \in BucketValues
        /\ source = "reachable"
        /\ dagrun = [r \in Runs |-> IF r = first THEN [state |-> "running", ds |-> ds]
                                                 ELSE [state |-> "none", ds |-> <<>>]]
        /\ ti = [r \in Runs |-> [t \in TaskIds |->
                    IF r # first \/ t = NOTIFY THEN NoTI
                    ELSE IF t = UPLOAD THEN [SucceededTI EXCEPT !.state = "running"]
                    ELSE SucceededTI]]
        /\ pc = [r \in Runs |-> [t \in TaskIds |->
                    IF r = first /\ t = UPLOAD THEN UploadStatements[1] ELSE "idle"]]
        /\ locals = [r \in Runs |-> [t \in TaskIds |-> NoLocals]]
        /\ xcom = [r \in Runs |-> [t \in TaskIds |->
                    IF r # first THEN None
                    ELSE IF t = EXTRACT THEN CsvPath(ds)
                    ELSE IF t = CONVERT THEN ReplaceExt(CsvPath(ds))
                    ELSE None]]
        /\ disk = [p \in {CsvPath(ds), ReplaceExt(CsvPath(ds))} |->
                    IF p.ext = "parquet" THEN File("complete", first, first) ELSE NoFile]
        /\ s3 = <<>>
        /\ log = [r \in Runs |-> None]

\* the statements of upload_to_s3, and the retries of a failed attempt
NextKey ==
    \/ \E r \in Runs : UploadCheckInput(r)
    \/ \E r \in Runs : UploadCheckBucket(r)
    \/ \E r \in Runs : UploadSession(r)
    \/ \E r \in Runs : UploadFile(r)
    \/ \E r \in Runs : UploadGetSize(r)
    \/ \E r \in Runs : UploadRemoveParquet(r)
    \/ \E r \in Runs : UploadReturn(r)
    \/ \E r \in Runs : RetryDelay(r, UPLOAD)
    \/ \E r \in Runs : StartTask(r, UPLOAD)

SpecKey == InitKey /\ [][NextKey]_vars

\* the key <prefix>/year=YYYY/month=MM/day=DD/<file_name> of the day d of month m of year y
PartitionKey(y, m, d, file_name) ==
    [prefix |-> "timescale_data",
     year   |-> Digits(y, 4),
     month  |-> Digits(m, 2),
     day    |-> Digits(d, 2),
     file_name |-> file_name]

\* C13: for a run of any calendar date y-m-d, every key upload_to_s3 writes an
\* object at, and the key its result names, is
\* timescale_data/year=YYYY/month=MM/day=DD/<base name of the parquet file>
\* with the month and the day zero-padded to two digits; for 2025-03-07 it
\* ends in year=2025/month=03/day=07/<file name>.
C13_KeyFormat ==
    \A r \in Runs : \A y \in Years : \A m \in Months : \A d \in 1..DaysIn(m) :
        (Created(r) /\ dagrun[r].ds = Strftime(y, m, d)) =>
            LET key == PartitionKey(y, m, d, Basename(xcom[r][CONVERT])) IN
            /\ \A k \in DOMAIN s3 : k = key
            /\ xcom[r][UPLOAD] # None => xcom[r][UPLOAD].key = key
            /\ (y = 2025 /\ m = 3 /\ d = 7) =>
                  /\ key.year = <<"2", "0", "2", "5">>
                  /\ key.month = <<"0", "3">>
                  /\ key.day = <<"0", "7">>
                  /\ key.file_name.ext = "parquet"

\* C13 witness: the upload of the run of 2025-03-07 has returned, its object is stored.
C13_Witness ==
    \E r \in Runs :
        /\ dagrun[r].ds = Strftime(2025, 3, 7)
        /\ xcom[r][UPLOAD] # None
        /\ xcom[r][UPLOAD].key \in DOMAIN s3
        /\ xcom[r][UPLOAD].key.month = <<"0", "3">>

\* C14 (as stated): when upload_to_s3 has raised the configuration error for the
\* missing bucket name, no network I/O has been performed: the run's extractor
\* has not returned rows read from the source store (pd.read_sql over a
\* connection), and no object has been transferred.
C14_BucketErrorBeforeNetworkIO ==
    \A r \in Runs :
        ti[r][UPLOAD].error = "ValueError" =>
            /\ AWS_S3_BUCKET = None
            /\ ti[r][EXTRACT].state # "success"
            /\ DOMAIN s3 = {}

\* ------------------------------- notify_completion on any upstream result
\* The result notify_completion may pull for a run of date ds: the
\* upload_details a returned upload_to_s3 pushed, or None when the task
\* instance is in state success without a pushed value (marked success by
\* hand, or its XCom row cleared).
PulledResults(r, ds) ==
    LET f == File("complete", r, r)
        parquet_file == ReplaceExt(CsvPath(ds))
    IN  {None} \cup
        {UploadDetails(b, S3Key(ds, Basename(parquet_file)), [type |-> "int", n |-> FileSize(f)]) :
            b \in BucketValues \ {None}}

\* The three upstream tasks of a run are in state success, each after one to
\* retries + 1 tries; notify_completion has not been scheduled yet.
InitNotify ==
    \E ds \in RunDates : \E tries \in [TaskIds \ {NOTIFY} -> 1..(retries + 1)] :
        LET first == CHOOSE r \in Runs : \A q \in Runs : r <= q IN
        \E upload_details \in PulledResults(first, ds) :
            /\ AWS_S3_BUCKET = IF upload_details = None
                                  THEN CHOOSE b \in BucketValues : b # None
                                  ELSE upload_details.bucket
            /\ source = "reachable"
            /\ dagrun = [r \in Runs |-> IF r = first THEN [state |-> "running", ds |-> ds]
                                                     ELSE [state |-> "none", ds |-> <<>>]]
            /\ ti = [r \in Runs |-> [t \in TaskIds |->
                        IF r # first \/ t = NOTIFY THEN NoTI
                        ELSE [SucceededTI EXCEPT !.try_number = tries[t]]]]
            /\ pc = [r \in Runs |-> [t \in TaskIds |-> "idle"]]
            /\ locals = [r \in Runs |-> [t \in TaskIds |-> NoLocals]]
            /\ xcom = [r \in Runs |-> [t \in TaskIds |->
                        IF r # first THEN None
                        ELSE IF t = EXTRACT THEN CsvPath(ds)
                        ELSE IF t = CONVERT THEN ReplaceExt(CsvPath(ds))
                        ELSE IF t = UPLOAD THEN upload_details
                        ELSE None]]
            /\ disk = [p \in Paths |-> NoFile]
            /\ s3 = IF upload_details = None THEN <<>>
                    ELSE PutObject(<<>>, upload_details.key,
                                   Object(first, File("complete", first, first)))
            /\ log = [r \in Runs |-> None]

\* the scheduling and the attempts of notify_completion, then the end of the run
NextNotify ==
    \/ \E r \in Runs : ScheduleTask(r, NOTIFY)
    \/ \E r \in Runs : StartTask(r, NOTIFY)
    \/ \E r \in Runs : NotifyLog(r)
    \/ \E r \in Runs : RetryDelay(r, NOTIFY)
    \/ \E r \in Runs : Timeout(r, NOTIFY)
    \/ \E r \in Runs : FinishRun(r)

SpecNotify == InitNotify /\ [][NextNotify]_vars

\* C15 (as stated): a notifier attempt that found no upload result is not
\* followed by another attempt: the task is failed after that one try, never
\* waiting for a retry.
C15_MissingResultIsFatal ==
    \A r \in Runs :
        ti[r][NOTIFY].error = "TypeError" =>
            /\ ti[r][NOTIFY].state = "failed"
            /\ ti[r][NOTIFY].try_number = 1

\* C16 (as stated): an execution timeout that fires in a running task aborts
\* the run at that task: no attempt of that task or of a later task starts
\* after it in the run, and the step of the timeout changes no file on disk.
C16_TimeoutAbortsRun ==
    [][\A r \in Runs : \A t \in TaskIds :
          /\ (ti[r][t].error = "AirflowTaskTimeout" /\ ti[r][t].state # "running")
                => \A v \in TaskIds : Index(v) >= Index(t) => ~AttemptStarts(r, v)
          /\ (ti[r][t].state = "running" /\ ti'[r][t].error = "AirflowTaskTimeout")
                => disk' = disk]_vars

\* C17: the completion record of a run carries the bucket, the key and the size
\* that the returning attempt of upload_to_s3 pushed; the key is the run's
\* partition key, and the size is that of the parquet file as it was
\* transferred (the size of the object the run stored), taken by
\* os.path.getsize while the file was still on disk, before os.remove.
C17_RecordMatchesUpload ==
    \A r \in Runs :
        /\ Executing(r, UPLOAD, "remove") =>
              /\ Exists(disk[ParquetOf(r)])
              /\ locals[r][UPLOAD].file_size # None
              /\ locals[r][UPLOAD].file_size.n = FileSize(disk[ParquetOf(r)])
        /\ log[r] # None =>
              /\ xcom[r][UPLOAD] # None
              /\ log[r].bucket = xcom[r][UPLOAD].bucket
              /\ log[r].key = xcom[r][UPLOAD].key
              /\ log[r].file_size_bytes = xcom[r][UPLOAD].file_size_bytes
              /\ log[r].bucket = AWS_S3_BUCKET
              /\ log[r].key = KeyOf(r)
              /\ log[r].key \in DOMAIN s3
              /\ Stored(KeyOf(r)).by = r =>
                    log[r].file_size_bytes.n = Stored(KeyOf(r)).size

\* C17 witness: a run whose upload succeeded on its second attempt has logged
\* its record, and the object it stored has the size the record reports.
C17_Witness ==
    \E r \in Runs :
        /\ log[r] # None
        /\ ti[r][UPLOAD].try_number = 2
        /\ Stored(KeyOf(r)).by = r
        /\ log[r].file_size_bytes.n = Stored(KeyOf(r)).size
        /\ ~Exists(disk[ParquetOf(r)])

\* ------------------------------------------------- the extraction query
\* Number of rows of the source table, at most.
MaxRows == 3

\* Timestamps are minutes. NOW() of the database when the query runs: 25
\* minutes past an hour.
Now == 3 * 24 * 60 + 25

\* INTERVAL '24 hours'
Lookback == 24 * 60

\* The timestamps a source row may carry: one minute before the lower bound of
\* the window, the lower bound, two minutes of the current hour, NOW() itself
\* and one minute after it.
Timestamps == {Now - Lookback - 1, Now - Lookback, Now - 20, Now - 1, Now, Now + 1}

\* device ids in ascending order of the text
DeviceIds == <<"DEL_001", "MUM_001">>
DeviceRank(d) == CHOOSE i \in 1..Len(DeviceIds) : DeviceIds[i] = d

Locations == {[city |-> "Delhi", country |-> "India"], [city |-> "Mumbai", country |-> "India"]}

\* the rows of "sample-location-data", by the columns the query reads
SourceRows ==
    {[timestamp_column |-> t, device_id |-> DeviceIds[i], city |-> l.city, country |-> l.country] :
        t \in Timestamps, i \in 1..Len(DeviceIds), l \in Locations}

\* the tables: the rows in the order they are stored, duplicates allowed
Tables == UNION {[1..n -> SourceRows] : n \in 0..MaxRows}

\* time_bucket('1 hour', t), without the truncation to the hour
TimeBucket_NoTruncation(t) == t

\* time_bucket('1 hour', t)
TimeBucket(t) == t - (t % 60)

\* the window without its lower bound
Where_Strict(row, now) == row.timestamp_column > now - Lookback

\* WHERE timestamp_column >= NOW() - INTERVAL '24 hours'
Where(row, now) == row.timestamp_column >= now - Lookback

\* the positions of the rows of the table that pass the WHERE clause
Selected(table, now) == {i \in 1..Len(table) : Where(table[i], now)}

\* GROUP BY hour_bucket, device_id, city, country
GroupKey(row) ==
    [hour_bucket |-> TimeBucket(row.timestamp_column),
     device_id |-> row.device_id,
     city |-> row.city,
     country |-> row.country]

SetMax(S) == CHOOSE x \in S : \A y \in S : y <= x
SetMin(S) == CHOOSE x \in S : \A y \in S : x <= y

\* the result row of group g: COUNT(*), MAX and MIN(timestamp_column) over its
\* rows (the six AVG columns are computed over the same rows and are left out)
ResultRow(table, now, g) ==
    LET members == {i \in Selected(table, now) : GroupKey(table[i]) = g}
        stamps  == {table[i].timestamp_column : i \in members}
    IN  [hour_bucket |-> g.hour_bucket,
         device_id |-> g.device_id,
         record_count |-> Cardinality(members),
         max_timestamp |-> SetMax(stamps),
         min_timestamp |-> SetMin(stamps),
         city |-> g.city,
         country |-> g.country]

ResultRows(table, now) ==
    {ResultRow(table, now, GroupKey(table[i])) : i \in Selected(table, now)}

\* ORDER BY hour_bucket DESC, device_id: row a must come before row b
OrderedBefore(a, b) ==
    \/ a.hour_bucket > b.hour_bucket
    \/ a.hour_bucket = b.hour_bucket /\ DeviceRank(a.device_id) < DeviceRank(b.device_id)

\* The results the query may return for a table: the result rows in any order
\* that ORDER BY allows (rows equal in hour_bucket and device_id come in an
\* order SQL leaves to the server).
QueryResults(table, now) ==
    LET rows == ResultRows(table, now)
        n == Cardinality(rows)
    IN  {s \in [1..n -> rows] :
            /\ \A i, j \in 1..n : i # j => s[i] # s[j]
            /\ \A i, j \in 1..n : i < j => ~OrderedBefore(s[j], s[i])}

\* df = pd.read_sql(query, conn_string), with the rows of the frame
DataFrameOf(x, rows) == [type |-> "DataFrame", data |-> x, rows |-> rows]

\* extract_timescale_data of a run has just been started, over any source table.
InitQuery ==
    \E table \in Tables :
        LET first == CHOOSE r \in Runs : \A q \in Runs : r <= q IN
        /\ AWS_S3_BUCKET = CHOOSE b \in BucketValues : b # None
        /\ source = [status |-> "reachable", now |-> Now, rows |-> table]
        /\ dagrun = [r \in Runs |-> IF r = first THEN [state |-> "running", ds |-> Dates[1]]
                                                 ELSE [state |-> "none", ds |-> <<>>]]
        /\ ti = [r \in Runs |-> [t \in TaskIds |->
                    IF r = first /\ t = EXTRACT THEN [SucceededTI EXCEPT !.state = "running"]
                    ELSE NoTI]]
        /\ pc = [r \in Runs |-> [t \in TaskIds |->
                    IF r = first /\ t = EXTRACT THEN ExtractStatements[1] ELSE "idle"]]
        /\ locals = [r \in Runs |-> [t \in TaskIds |-> NoLocals]]
        /\ xcom = [r \in Runs |-> [t \in TaskIds |-> None]]
        /\ disk = [p \in Paths |-> NoFile]
        /\ s3 = <<>>
        /\ log = [r \in Runs |-> None]

\* df = pd.read_sql(query, conn_string): the statement of ExtractReadSql with
\* the query evaluated over the rows of the source table
ExtractReadSqlRows(r) ==
    /\ Executing(r, EXTRACT, "read_sql")
    /\ \/ /\ source.status = "reachable"
          /\ \E result \in QueryResults(source.rows, source.now) :
                locals' = [locals EXCEPT ![r][EXTRACT].df = DataFrameOf(r, result)]
          /\ Step(r, EXTRACT)
          /\ UNCHANGED <<ti, xcom>>
       \/ /\ Raise(r, EXTRACT, "OperationalError")
          /\ UNCHANGED xcom
    /\ UNCHANGED <<AWS_S3_BUCKET, source, dagrun, disk, s3, log>>

NextQuery == \E r \in Runs : ExtractReadSqlRows(r)

SpecQuery == InitQuery /\ [][NextQuery]_vars

\* the rows of the frame the extractor of run r holds, once read_sql has returned
HasFrame(r) == locals[r][EXTRACT].df # None
Frame(r) == locals[r][EXTRACT].df.rows

\* the tables that hold the same rows in another order
Reorderings(table) ==
    {[i \in 1..Len(table) |-> table[p[i]]] : p \in Permutations(1..Len(table))}

\* C18 (as stated): the rows of the frame are sorted by hour_bucket descending
\* and, within a bucket, by device_id ascending, and they are the one sequence
\* the query returns for the source rows, whatever the order they are stored in.
C18_OrderingDeterministic ==
    \A r \in Runs :
        HasFrame(r) =>
            /\ \A i, j \in 1..Len(Frame(r)) :
                  i < j =>
                      \/ Frame(r)[i].hour_bucket > Frame(r)[j].hour_bucket
                      \/ /\ Frame(r)[i].hour_bucket = Frame(r)[j].hour_bucket
                         /\ DeviceRank(Frame(r)[i].device_id) <= DeviceRank(Frame(r)[j].device_id)
            /\ \A table \in Reorderings(source.rows) :
                  \A result \in QueryResults(table, source.now) : result = Frame(r)

\* the sum of record_count over the rows of a frame
RECURSIVE SumOfCounts(_)
SumOfCounts(rows) ==
    IF rows = <<>> THEN 0 ELSE Head(rows).record_count + SumOfCounts(Tail(rows))

\* the positions of the source rows with now - 24 hours <= timestamp < now
InLookbackWindow(table, now) ==
    {i \in 1..Len(table) :
        /\ now - Lookback <= table[i].timestamp_column
        /\ table[i].timestamp_column < now}

\* C19 (as stated): the frame aggregates exactly the source rows whose
\* timestamp t satisfies now - 24 hours <= t < now: every result row spans
\* timestamps of that window only, and the record counts add up to the number
\* of source rows in it.
C19_HalfOpenWindow ==
    \A r \in Runs :
        HasFrame(r) =>
            /\ \A i \in 1..Len(Frame(r)) :
                  /\ source.now - Lookback <= Frame(r)[i].min_timestamp
                  /\ Frame(r)[i].max_timestamp < source.now
            /\ SumOfCounts(Frame(r)) = Cardinality(InLookbackWindow(source.rows, source.now))

\* the hours and the devices present in the source table
HoursIn(table) == {table[i].timestamp_column \div 60 : i \in 1..Len(table)}
DevicesIn(table) == {table[i].device_id : i \in 1..Len(table)}
\* the (device, city, country) combinations present in the source table
PlacedDevicesIn(table) ==
    {<<table[i].device_id, table[i].city, table[i].country>> : i \in 1..Len(table)}

\* C20 (as stated): the frame has at most (hours present in the source) x
\* (devices present in the source) rows.
C20_RowsAtMostBucketsTimesEntities ==
    \A r \in Runs :
        HasFrame(r) =>
            Len(Frame(r)) <= Cardinality(HoursIn(source.rows)) * Cardinality(DevicesIn(source.rows))

\* C20 (amended): the frame has at most (hours present in the source) x
\* (device, city, country combinations present in the source) rows; it has at
\* most hours x devices rows when every device of the source has its rows in
\* one city and country.
C20_RowsAtMostBucketsTimesPlacedEntities ==
    \A r \in Runs :
        HasFrame(r) =>
            /\ Len(Frame(r)) <=
                  Cardinality(HoursIn(source.rows)) * Cardinality(PlacedDevicesIn(source.rows))
            /\ Cardinality(PlacedDevicesIn(source.rows)) = Cardinality(DevicesIn(source.rows))
                  => Len(Frame(r)) <=
                        Cardinality(HoursIn(source.rows)) * Cardinality(DevicesIn(source.rows))

\* C20 witness: one device with rows of one hour in two cities gives two result
\* rows, the amended bound; another table reaches hours x devices exactly.
C20_Witness ==
    \E r \in Runs :
        /\ HasFrame(r)
        /\ Cardinality(HoursIn(source.rows)) = 1
        /\ Cardinality(DevicesIn(source.rows)) = 1
        /\ Cardinality(PlacedDevicesIn(source.rows)) = 2
        /\ Len(Frame(r)) = 2

\* the place of statement p in the callable of task t
Position(t, p) == CHOOSE i \in 1..Len(Statements(t)) : Statements(t)[i] = p

\* the attempt of task t of run r that is running has executed its os.remove
Removed(r, t) ==
    /\ ti[r][t].state = "running"
    /\ Position(t, pc[r][t]) > Position(t, "remove")

\* C21 (as stated): a staging file is deleted only by its consumer, after the
\* consumer's own output is there (the complete parquet file for the CSV, the
\* stored object for the parquet file), at most once in a run, and never in an
\* attempt that then fails.
C21_DeletedOnceAfterOutput ==
    [][\A r \in Runs :
          /\ (Executing(r, CONVERT, "remove") /\ ~Exists(disk'[CsvOf(r)]))
                => /\ disk[ParquetOf(r)] = File("complete", r, r)
                   /\ Exists(disk[CsvOf(r)])
          /\ (Executing(r, UPLOAD, "remove") /\ ~Exists(disk'[ParquetOf(r)]))
                => /\ Stored(KeyOf(r)).st = "present" /\ Stored(KeyOf(r)).by = r
                   /\ Exists(disk[ParquetOf(r)])
          /\ \A t \in {CONVERT, UPLOAD} : AttemptFails(r, t) => ~Removed(r, t)]_vars

\* C22 (as stated): the CSV and the parquet file of a run's date never exist on
\* disk at the same time.
C22_AtMostOneAlive ==
    \A r \in Runs :
        Created(r) => ~(Exists(disk[CsvOf(r)]) /\ Exists(disk[ParquetOf(r)]))

\* C22 (amended): while a run is running, the CSV and the parquet file of its
\* date exist together only as long as its converter has not returned: once
\* convert_to_parquet has succeeded the CSV is gone.
C22_OneAliveOnceConverted ==
    \A r \in Runs :
        (dagrun[r].state = "running" /\ ti[r][CONVERT].state = "success")
            => ~Exists(disk[CsvOf(r)])

\* C22 witness: the converter of a running run has returned on its second
\* attempt; the parquet file is on disk and the CSV is not.
C22_Witness ==
    \E r \in Runs :
        /\ dagrun[r].state = "running"
        /\ ti[r][CONVERT].state = "success"
        /\ ti[r][CONVERT].try_number = 2
        /\ disk[ParquetOf(r)] = File("complete", r, r)
        /\ ~Exists(disk[CsvOf(r)])

\* C23 (as stated): when an attempt of extract_timescale_data or of
\* convert_to_parquet fails, the file at the path its downstream task reads (the
\* CSV, the parquet file) is absent or complete, never partially written, and
\* the task has pushed no path to XCom.
C23_FailsClosed ==
    [][\A r \in Runs :
          /\ AttemptFails(r, EXTRACT) =>
                /\ disk'[CsvOf(r)].st # "partial"
                /\ xcom'[r][EXTRACT] = None
          /\ AttemptFails(r, CONVERT) =>
                /\ disk'[ParquetOf(r)].st # "partial"
                /\ xcom'[r][CONVERT] = None]_vars

\* the tasks before t in the dependency chain
Earlier(t) == {u \in TaskIds : Index(u) < Index(t)}

\* C24: a task that has succeeded is never executed again and its pushed result
\* (the CSV path, the parquet path) never changes; in particular when a retry of
\* a task starts, every earlier task of the run is in state success and stays
\* as it is, with its try number and its result.
C24_RetryRerunsOnlyFailedStage ==
    [][\A r \in Runs : \A t \in TaskIds :
          /\ ti[r][t].state = "success" =>
                /\ ti'[r][t] = ti[r][t]
                /\ xcom'[r][t] = xcom[r][t]
                /\ pc'[r][t] = "idle"
          /\ (AttemptStarts(r, t) /\ ti[r][t].try_number >= 1) =>
                \A u \in Earlier(t) :
                    /\ ti[r][u].state = "success"
                    /\ ti'[r][u] = ti[r][u]
                    /\ xcom'[r][u] = xcom[r][u]]_vars

\* C24 witness: the second attempt of the converter is running on the CSV that
\* the extractor's only attempt wrote and recorded.
C24_Witness ==
    \E r \in Runs :
        /\ ti[r][CONVERT].state = "running"
        /\ ti[r][CONVERT].try_number = 2
        /\ pc[r][CONVERT] = "read_csv"
        /\ disk[CsvOf(r)] = File("complete", r, r)
        /\ ti[r][EXTRACT].try_number = 1
        /\ xcom[r][EXTRACT] = CsvOf(r)

\* the tasks of run r that are executing
RunningTasks(r) == {t \in TaskIds : ti[r][t].state = "running"}

\* C25: at most one of the four tasks of a run is running in any state, and
\* only a running task is inside its callable.
C25_OneStageAtATime ==
    \A r \in Runs :
        /\ Cardinality(RunningTasks(r)) <= 1
        /\ \A t \in TaskIds : pc[r][t] # "idle" => t \in RunningTasks(r)

\* C25 witness: the uploader is the one running task of a run whose extractor
\* and converter have finished.
C25_Witness ==
    \E r \in Runs :
        /\ RunningTasks(r) = {UPLOAD}
        /\ pc[r][UPLOAD] = "upload_file"
        /\ ti[r][EXTRACT].state = "success"
        /\ ti[r][CONVERT].state = "success"
        /\ ti[r][CONVERT].try_number = 2

\* ------------------------------------------------------------- fair runs
\* the run created first
FirstRun == CHOOSE r \in Runs : \A q \in Runs : r <= q

\* The steps of one run: those of Next for the run created first. Runs execute
\* one at a time (max_active_runs), each by these steps.
NextFirst ==
    \/ \E d \in DatesFor(FirstRun) : CreateRun(FirstRun, d)
    \/ StartRun(FirstRun)
    \/ \E t \in TaskIds : ScheduleTask(FirstRun, t)
    \/ \E t \in TaskIds : RetryDelay(FirstRun, t)
    \/ \E t \in TaskIds : StartTask(FirstRun, t)
    \/ \E t \in TaskIds : UpstreamFailed(FirstRun, t)
    \/ FinishRun(FirstRun)
    \/ ExtractReadSql(FirstRun)
    \/ ExtractToCsvOpen(FirstRun)
    \/ ExtractToCsvWrite(FirstRun)
    \/ ExtractReturn(FirstRun)
    \/ ConvertCheckInput(FirstRun)
    \/ ConvertReadCsv(FirstRun)
    \/ ConvertWriteTableOpen(FirstRun)
    \/ ConvertWriteTableWrite(FirstRun)
    \/ ConvertRemoveCsv(FirstRun)
    \/ ConvertReturn(FirstRun)
    \/ UploadCheckInput(FirstRun)
    \/ UploadCheckBucket(FirstRun)
    \/ UploadSession(FirstRun)
    \/ UploadFile(FirstRun)
    \/ UploadGetSize(FirstRun)
    \/ UploadRemoveParquet(FirstRun)
    \/ UploadReturn(FirstRun)
    \/ NotifyLog(FirstRun)
    \/ \E t \in TaskIds : Timeout(FirstRun, t)

\* The scheduler and the workers keep going: as long as some step of the run
\* is possible (the run to create or start, a task to schedule or start, a
\* statement, an exception or the execution timeout of a running attempt, the
\* run to close), a step is taken.
FairSpec == Init /\ [][NextFirst]_vars /\ WF_vars(NextFirst)

Terminal(r) == dagrun[r].state \in {"success", "failed"}

\* C26: a run that was started eventually is Completed or Failed; in a run that
\* is Completed or Failed every task is in a final state and outside its
\* callable, and from then on the run's task instances, XCom values and
\* completion record never change and no file or object written in a later
\* step is written by it.
C26_EveryRunTerminates ==
    /\ \A r \in Runs : (dagrun[r].state = "running") ~> Terminal(r)
    /\ [](\A r \in Runs :
             Terminal(r) =>
                 \A t \in TaskIds :
                     /\ ti[r][t].state \in {"success", "failed", "upstream_failed"}
                     /\ pc[r][t] = "idle")
    /\ [][\A r \in Runs :
             Terminal(r) =>
                 /\ dagrun'[r] = dagrun[r]
                 /\ ti'[r] = ti[r]
                 /\ pc'[r] = pc[r]
                 /\ xcom'[r] = xcom[r]
                 /\ log'[r] = log[r]
                 /\ \A p \in DOMAIN disk :
                       (disk'[p] # disk[p] /\ Exists(disk'[p])) => disk'[p].by # r
                 /\ \A k \in DOMAIN s3' :
                       Stored(k)' # Stored(k) => Stored(k)'.by # r]_vars

\* C26 witness: a run has ended Failed after its uploader used up its three
\* tries, the notifier never having run.
C26_Witness ==
    \E r \in Runs :
        /\ dagrun[r].state = "failed"
        /\ ti[r][UPLOAD].state = "failed"
        /\ ti[r][UPLOAD].try_number = retries + 1
        /\ ti[r][NOTIFY].state = "upstream_failed"

\* C27: at the step in which notify_completion logs the record of a run, an
\* upload attempt of the run has succeeded, an object is stored in the
\* configured bucket at the key the record reports, and the parquet file of the
\* run is no longer on disk; a run one of whose extractor, converter or
\* uploader is failed (its tries used up) has no completion record, in any state.
C27_RecordOnlyAfterUpload ==
    /\ [](\A r \in Runs :
            (\E t \in {EXTRACT, CONVERT, UPLOAD} : ti[r][t].state = "failed")
                => log[r] = None)
    /\ [][\A r \in Runs :
             (log[r] = None /\ log'[r] # None) =>
                 /\ ti[r][UPLOAD].state = "success"
                 /\ xcom[r][UPLOAD] # None
                 /\ log'[r].bucket = AWS_S3_BUCKET
                 /\ AWS_S3_BUCKET # None
                 /\ Stored(log'[r].key).st = "present"
                 /\ ~Exists(disk[ParquetOf(r)])
                 /\ ~Exists(disk'[ParquetOf(r)])]_vars

\* C27 witness: a run has logged its record after an upload that succeeded on
\* its third attempt; another run, whose uploader failed, has none.
C27_Witness ==
    \E r, q \in Runs :
        /\ log[r] # None
        /\ ti[r][UPLOAD].try_number = retries + 1
        /\ Stored(log[r].key).st = "present"
        /\ ti[q][UPLOAD].state = "failed"
        /\ dagrun[q].state = "failed"
        /\ log[q] = None

\* C28: what a run converts and uploads is its own extraction: the frame its
\* converter reads, the parquet file its uploader transfers and every object in
\* the bucket hold the rows extracted by the run that handles them, from a
\* completely written file; the object of a Completed run is the complete
\* parquet file of that run's extraction, whatever an earlier run or attempt
\* left at the paths of the date.
C28_NoStaleUpload ==
    /\ \A k \in DOMAIN s3 :
          /\ s3[k].data = s3[k].by
          /\ s3[k].size = FileSize(File("complete", s3[k].by, s3[k].by))
    /\ \A r \in Runs :
          /\ locals[r][CONVERT].df # None => locals[r][CONVERT].df = DataFrame(r)
          /\ (ti[r][UPLOAD].state = "running" /\ Exists(disk[ParquetOf(r)]))
                => disk[ParquetOf(r)] = File("complete", r, r)
          /\ (dagrun[r].state = "success" /\ Stored(KeyOf(r)).by = r)
                => Stored(KeyOf(r)) = Object(r, File("complete", r, r))

\* C28 witness: a run is Completed with its own extraction stored, after an
\* earlier run of the same date failed in its uploader and left its parquet
\* file at the path of the date.
C28_Witness ==
    \E r, q \in Runs :
        /\ r < q
        /\ dagrun[q].ds = dagrun[r].ds
        /\ dagrun[r].state = "failed"
        /\ ti[r][UPLOAD].error = "S3UploadFailedError"
        /\ dagrun[q].state = "success"
        /\ Stored(KeyOf(q)) = Object(q, File("complete", q, q))

\* the positions of the source rows at or after NOW() - 24 hours, the window of
\* the query
InQueryWindow(table, now) ==
    {i \in 1..Len(table) : table[i].timestamp_column >= now - Lookback}

\* source row x belongs to the group of result row y: same hour, device, city
\* and country
CountedIn(x, y) ==
    /\ y.hour_bucket = (x.timestamp_column \div 60) * 60
    /\ y.device_id = x.device_id
    /\ y.city = x.city
    /\ y.country = x.country

\* C29: every source row in the window of the query belongs to the group of
\* exactly one row of the frame, every row of the frame counts exactly the
\* source rows of the window that belong to its group, and so the record
\* counts add up to the number of source rows in the window.
C29_GroupingLosesNoRow ==
    \A r \in Runs :
        HasFrame(r) =>
            LET window == InQueryWindow(source.rows, source.now) IN
            /\ \A i \in window :
                  Cardinality({j \in 1..Len(Frame(r)) : CountedIn(source.rows[i], Frame(r)[j])}) = 1
            /\ \A j \in 1..Len(Frame(r)) :
                  Frame(r)[j].record_count =
                      Cardinality({i \in window : CountedIn(source.rows[i], Frame(r)[j])})
            /\ SumOfCounts(Frame(r)) = Cardinality(window)

\* C29 witness: of three source rows one is older than the window and two fall
\* in one group; the frame has the one row, with record_count 2.
C29_Witness ==
    \E r \in Runs :
        /\ HasFrame(r)
        /\ Len(source.rows) = 3
        /\ Len(Frame(r)) = 1
        /\ Frame(r)[1].record_count = 2
        /\ Frame(r)[1].min_timestamp < Frame(r)[1].max_timestamp
====
